---------------------------- MODULE Spec2Model ----------------------------
(***************************************************************************)
(* Model of plexctl (src/plexctl.py): a command-line controller that       *)
(* issues HTTP GETs to a Plex server and runs docker child processes.      *)
(*                                                                         *)
(* Text is modelled as a sequence of atoms.  An atom is a TLA+ string that *)
(* stands for one character ("/", "?", "&", " ", ...), for one             *)
(* percent-escape ("%26"), or for a run of letters, digits, "+", "-" and   *)
(* "." that no function of the program looks inside ("X-Plex-Token",       *)
(* "http").  The text of a message is an atom too.  The newline character  *)
(* is the atom "\n".                                                       *)
(*                                                                         *)
(* An optional value (Python's None or a value) is the empty sequence or   *)
(* a one-element sequence holding the value.                               *)
(***************************************************************************)
EXTENDS Integers, Sequences, FiniteSets, TLC

VARIABLES
  pc,        \* position of the process: "start", a handler label, or "done"
  environ,   \* os.environ: a function from variable names to values
  environ0,  \* os.environ as it was before invocation (never changes)
  dotenv,    \* the .env file next to the script: exists, readable, lines
  docker,    \* whether shutil.which("docker") finds the executable
  args,      \* the argparse.Namespace of this invocation
  url,       \* the handler's local variable url
  used,      \* the values get_env / require_env returned to the handler
  requests,  \* the GET requests issued, in order, with their outcome
  lookups,   \* the results of the shutil.which calls, in order
  procs,     \* the child processes run, in order, with their return code
  stdout,    \* the lines printed to stdout
  stderr,    \* the lines printed to stderr
  fatal,     \* the kind of fatal error that ended the run, "" if none
  exitCode,  \* the exit status of the process, once it has exited
  murl,      \* mask_token_in_url alone: the URL given
  mout,      \* mask_token_in_url alone: the results of successive calls
  mphase     \* mask_token_in_url alone: the number of calls made

vars == <<pc, environ, environ0, dotenv, docker, args, url, used, requests,
          lookups, procs, stdout, stderr, fatal, exitCode, murl, mout, mphase>>

runVars == <<pc, environ, environ0, dotenv, docker, args, url, used, requests,
             lookups, procs, stdout, stderr, fatal, exitCode>>

maskVars == <<murl, mout, mphase>>

-----------------------------------------------------------------------------
(* Program constants *)

DEFAULT_BASE_URL == <<"http", ":", "/", "/", "127.0.0.1", ":", "32400">>

DEFAULT_CONTAINER == <<"plex">>

TOKEN_PARAM == <<"X-Plex-Token">>

MASK == <<"*", "*", "*", "*">>

SCANNER_PATH == <<"/usr/lib/plexmediaserver/Plex Media Scanner">>

PLEX_BASE_URL == <<"PLEX_BASE_URL">>

PLEX_TOKEN == <<"PLEX_TOKEN">>

PLEX_CONTAINER == <<"PLEX_CONTAINER">>

-----------------------------------------------------------------------------
(* Python's str methods, on sequences of atoms *)

\* s[i:] for a 1-based i
Drop(s, i) == SubSeq(s, i, Len(s))

\* s[:n]
Take(s, n) == SubSeq(s, 1, n)

\* the position of the first atom a in s, 0 if there is none (str.find + 1)
RECURSIVE IndexFrom(_, _, _)
IndexFrom(s, a, i) ==
  IF i > Len(s) THEN 0
  ELSE IF s[i] = a THEN i
  ELSE IndexFrom(s, a, i + 1)

IndexOf(s, a) == IndexFrom(s, a, 1)

\* s.startswith(a) for a single atom a
StartsWith(s, a) == Len(s) >= 1 /\ s[1] = a

\* sub in s, for sequences of atoms
Contains(s, sub) ==
  \E i \in 0..(Len(s) - Len(sub)) : SubSeq(s, i + 1, i + Len(sub)) = sub

\* s.lstrip(): leading blanks removed
RECURSIVE LStrip(_)
LStrip(s) == IF s # <<>> /\ Head(s) = " " THEN LStrip(Tail(s)) ELSE s

\* s.rstrip(): trailing blanks removed
RECURSIVE RStrip(_)
RStrip(s) ==
  IF s # <<>> /\ s[Len(s)] = " " THEN RStrip(Take(s, Len(s) - 1)) ELSE s

\* s.strip()
Strip(s) == LStrip(RStrip(s))

\* s.rstrip("/"): every trailing "/" removed
RECURSIVE RStripSlash(_)
RStripSlash(s) ==
  IF s # <<>> /\ s[Len(s)] = "/" THEN RStripSlash(Take(s, Len(s) - 1)) ELSE s

\* s.split(sep): the fields between the occurrences of the atom sep
RECURSIVE Split(_, _)
Split(s, sep) ==
  LET i == IndexOf(s, sep)
  IN  IF i = 0 THEN <<s>>
      ELSE <<Take(s, i - 1)>> \o Split(Drop(s, i + 1), sep)

\* s.split(sep, 1): at most two fields
Split1(s, sep) ==
  LET i == IndexOf(s, sep)
  IN  IF i = 0 THEN <<s>> ELSE <<Take(s, i - 1), Drop(s, i + 1)>>

\* sep.join(parts)
RECURSIVE Join(_, _)
Join(parts, sep) ==
  IF parts = <<>> THEN <<>>
  ELSE IF Len(parts) = 1 THEN parts[1]
  ELSE parts[1] \o <<sep>> \o Join(Tail(parts), sep)

\* the sequences of at most n elements of S
SeqsUpTo(S, n) == UNION {[1..k -> S] : k \in 0..n}

\* the lines print() writes for a text: one per "\n"-separated piece
Lines(text) == Split(text, "\n")

-----------------------------------------------------------------------------
(* urllib.parse, as mask_token_in_url and build_plex_url use it *)

\* urllib.parse.quote_plus on one atom: letters, digits and "_.-~" are kept,
\* a blank becomes "+", every other character becomes its percent-escape.
QuoteAtom(a) ==
  CASE a = " " -> "+"
    [] a = "+" -> "%2B"
    [] a = "&" -> "%26"
    [] a = "=" -> "%3D"
    [] a = "?" -> "%3F"
    [] a = "#" -> "%23"
    [] a = "/" -> "%2F"
    [] a = "*" -> "%2A"
    [] a = "'" -> "%27"
    [] a = ":" -> "%3A"
    [] a = "\"" -> "%22"
    [] OTHER -> a

\* parse_qsl's decoding of one atom: "+" is a blank, an escape its character
UnquoteAtom(a) ==
  CASE a = "+" -> " "
    [] a = "%2B" -> "+"
    [] a = "%26" -> "&"
    [] a = "%3D" -> "="
    [] a = "%3F" -> "?"
    [] a = "%23" -> "#"
    [] a = "%2F" -> "/"
    [] a = "%2A" -> "*"
    [] a = "%27" -> "'"
    [] a = "%3A" -> ":"
    [] a = "%22" -> "\""
    [] OTHER -> a

quote_plus(s) == [i \in 1..Len(s) |-> QuoteAtom(s[i])]

unquote_plus(s) == [i \in 1..Len(s) |-> UnquoteAtom(s[i])]

\* The atoms that are no scheme characters (letters, digits, "+", "-", "."):
\* the delimiters and the percent-escapes.  Every other atom of the model is
\* a run of scheme characters.
Punctuation ==
  {" ", ":", "/", "?", "#", "&", "=", "*", "'", "\"", "\n",
   "%2B", "%26", "%3D", "%3F", "%23", "%2F", "%2A", "%27", "%3A", "%22"}

\* the runs of scheme characters that do not start with a letter
NotAlphaFirst == {"+", "-", ".", "0", "1", "2", "22", "127.0.0.1", "32400", "200"}

\* urllib.parse.uses_netloc, as far as the atoms of the model go: the empty
\* scheme is not in question where this is used
uses_netloc == {<<"http">>, <<"https">>, <<"ftp">>, <<"file">>}

\* the scheme test of urlsplit: a ":" after the first character, a letter
\* first, scheme characters up to the ":"
HasScheme(u) ==
  LET i == IndexOf(u, ":")
  IN  /\ i > 1
      /\ u[1] \notin Punctuation \cup NotAlphaFirst
      /\ \A j \in 1..(i - 1) : u[j] \notin Punctuation

\* the position of the first "/", "?" or "#" at or after i, Len(u) + 1 if
\* there is none (_splitnetloc)
RECURSIVE NetlocEnd(_, _)
NetlocEnd(u, i) ==
  IF i > Len(u) THEN Len(u) + 1
  ELSE IF u[i] \in {"/", "?", "#"} THEN i
  ELSE NetlocEnd(u, i + 1)

\* urllib.parse.urlsplit (CPython 3.11): leading blanks are dropped, the
\* scheme is cut at the first ":", the host after a leading "//", the
\* fragment at the first "#", then the query at the first "?" of what is
\* left.  The atoms of the model are lower-case and hold no "[" or "]".
urlsplit(u0) ==
  LET u         == LStrip(u0)
      hasScheme == HasScheme(u)
      i         == IndexOf(u, ":")
      u1        == IF hasScheme THEN Drop(u, i + 1) ELSE u
      hasNetloc == Len(u1) >= 2 /\ u1[1] = "/" /\ u1[2] = "/"
      e         == NetlocEnd(u1, 3)
      u2        == IF hasNetloc THEN Drop(u1, e) ELSE u1
      h         == Split1(u2, "#")
      q         == Split1(h[1], "?")
  IN  [scheme   |-> IF hasScheme THEN Take(u, i - 1) ELSE <<>>,
       netloc   |-> IF hasNetloc THEN SubSeq(u1, 3, e - 1) ELSE <<>>,
       path     |-> q[1],
       query    |-> IF Len(q) = 2 THEN q[2] ELSE <<>>,
       fragment |-> IF Len(h) = 2 THEN h[2] ELSE <<>>]

\* urllib.parse.urlunsplit (CPython 3.11): "//" and the host are written
\* when there is a host, or when the scheme takes one and the path does not
\* start with "//"; an empty scheme, query or fragment is left out with its
\* delimiter
urlunsplit(p) ==
  LET slashes == /\ Len(p.path) >= 2
                 /\ p.path[1] = "/"
                 /\ p.path[2] = "/"
      host    == \/ p.netloc # <<>>
                 \/ (p.scheme # <<>> /\ p.scheme \in uses_netloc /\ ~slashes)
      path    == IF host /\ p.path # <<>> /\ p.path[1] # "/"
                 THEN <<"/">> \o p.path ELSE p.path
      u1      == IF host THEN <<"/", "/">> \o p.netloc \o path ELSE p.path
      u2      == IF p.scheme # <<>> THEN p.scheme \o <<":">> \o u1 ELSE u1
  IN  u2
        \o (IF p.query # <<>> THEN <<"?">> \o p.query ELSE <<>>)
        \o (IF p.fragment # <<>> THEN <<"#">> \o p.fragment ELSE <<>>)

\* one field of a query string as parse_qsl(keep_blank_values=True) reads it:
\* split at the first "=", a field without "=" has an empty value
ParseField(f) ==
  LET nv == Split1(f, "=")
  IN  [k |-> unquote_plus(nv[1]),
       v |-> IF Len(nv) = 2 THEN unquote_plus(nv[2]) ELSE <<>>]

RECURSIVE ParseFields(_)
ParseFields(fs) ==
  IF fs = <<>> THEN <<>>
  ELSE IF Head(fs) = <<>> THEN ParseFields(Tail(fs))
  ELSE <<ParseField(Head(fs))>> \o ParseFields(Tail(fs))

\* urllib.parse.parse_qsl(query, keep_blank_values=True): the fields between
\* "&", empty fields skipped
parse_qsl(query) == IF query = <<>> THEN <<>> ELSE ParseFields(Split(query, "&"))

\* urllib.parse.urlencode of a list of pairs
urlencode(pairs) ==
  Join([i \in 1..Len(pairs) |->
          quote_plus(pairs[i].k) \o <<"=">> \o quote_plus(pairs[i].v)], "&")

\* the loop of mask_token_in_url: the token's value replaced, the rest kept
MaskPair(p) == IF p.k = TOKEN_PARAM THEN [k |-> p.k, v |-> MASK] ELSE p

MaskPairs(query) == [i \in 1..Len(query) |-> MaskPair(query[i])]

mask_token_in_url(u) ==
  LET parsed    == urlsplit(u)
      query     == parse_qsl(parsed.query)
      new_query == urlencode(MaskPairs(query))
  IN  urlunsplit([scheme |-> parsed.scheme, netloc |-> parsed.netloc,
                  path |-> parsed.path, query |-> new_query,
                  fragment |-> parsed.fragment])

build_plex_url(base_url, path, params) ==
  LET base  == RStripSlash(base_url)
      p     == IF StartsWith(path, "/") THEN path ELSE <<"/">> \o path
      query == urlencode(params)
  IN  IF query # <<>> THEN base \o p \o <<"?">> \o query ELSE base \o p

-----------------------------------------------------------------------------
(* Config resolver *)

\* The token values of the model: S is set in the environment, F and G come
\* from the .env file.  No other text of the model holds these atoms.
SECRET_ENV == <<"S">>

SECRET_FILE == <<"F">>

SECRET_FILE2 == <<"G">>

\* value.strip() == ""
IsBlank(s) == Strip(s) = <<>>

_strip_quotes(value) ==
  LET v == Strip(value)
  IN  IF /\ Len(v) >= 2
         /\ \/ (v[1] = "\"" /\ v[Len(v)] = "\"")
            \/ (v[1] = "'" /\ v[Len(v)] = "'")
      THEN SubSeq(v, 2, Len(v) - 1)
      ELSE v

\* whether the loop of load_dotenv_if_present skips the line: blank, a
\* comment, without "=", or with an empty key
DotenvSkips(raw_line) ==
  LET line == Strip(raw_line)
  IN  \/ line = <<>>
      \/ StartsWith(line, "#")
      \/ IndexOf(line, "=") = 0
      \/ Strip(Split1(line, "=")[1]) = <<>>

DotenvKey(raw_line) == Strip(Split1(Strip(raw_line), "=")[1])

DotenvValue(raw_line) == _strip_quotes(Split1(Strip(raw_line), "=")[2])

\* DotenvSet without its test: the file overrides the environment
DotenvSet_overrides(env, key, value) == (key :> value) @@ env

\* one iteration of the loop: the key is set only if it is not set yet
DotenvSet(env, key, value) ==
  IF key \notin DOMAIN env THEN (key :> value) @@ env ELSE env

DotenvLine(env, raw_line) ==
  IF DotenvSkips(raw_line) THEN env
  ELSE DotenvSet(env, DotenvKey(raw_line), DotenvValue(raw_line))

RECURSIVE DotenvLines(_, _)
DotenvLines(env, lines) ==
  IF lines = <<>> THEN env
  ELSE DotenvLines(DotenvLine(env, Head(lines)), Tail(lines))

\* os.environ.get(name): None or the value
environ_get(env, name) == IF name \in DOMAIN env THEN <<env[name]>> ELSE <<>>

\* the test of require_env and get_env: absent or blank
EnvMissing(env, name) ==
  LET value == environ_get(env, name)
  IN  value = <<>> \/ IsBlank(value[1])

get_env(env, name, default) ==
  IF EnvMissing(env, name) THEN default ELSE env[name]

-----------------------------------------------------------------------------
(* The steps of a run *)

\* What a step does to the position, the two streams and the exit status.
\* die prints "Error: <message>" to stderr and raises SystemExit(1); the
\* kind of error is recorded in fatal.
die(kind, message) ==
  [pc |-> "done", out |-> <<>>, err |-> Lines(<<"Error: ">> \o message),
   exit |-> <<1>>, fatal |-> kind]

\* the handler goes on at label
Goto(label) ==
  [pc |-> label, out |-> <<>>, err |-> <<>>, exit |-> <<>>, fatal |-> ""]

\* the handler returns rc after printing; main raises SystemExit(rc) and
\* the process ends with the low eight bits of rc as its exit status
Return(rc, out, err) ==
  [pc |-> "done", out |-> out, err |-> err, exit |-> <<rc % 256>>,
   fatal |-> ""]

\* an exception no handler catches: the interpreter prints the traceback
\* and ends with status 1
Uncaught(exc) ==
  [pc |-> "done", out |-> <<>>,
   err |-> <<<<"Traceback (most recent call last):">>, <<exc>>>>,
   exit |-> <<1>>, fatal |-> "uncaught"]

Apply(o) ==
  /\ pc' = o.pc
  /\ stdout' = stdout \o o.out
  /\ stderr' = stderr \o o.err
  /\ exitCode' = o.exit
  /\ fatal' = o.fatal

require_env_message(name) ==
  <<"Missing required environment variable ">> \o name
    \o <<". Create a .env file (see .env.example) or export it in your shell.">>

\* main, lines 302-303: the .env file is loaded before the arguments are
\* parsed.  A missing file or a directory is ignored, a file that cannot be
\* read is fatal.
load_dotenv_if_present ==
  /\ pc = "start"
  /\ IF dotenv.kind \in {"absent", "directory"}
     THEN /\ environ' = environ
          /\ Apply(Goto("dispatch"))
     ELSE IF dotenv.kind = "unreadable"
     THEN /\ environ' = environ
          /\ Apply(die("dotenv", <<"Failed to read .env file: ", ".env",
                                   " (", "OSError", ")">>))
     ELSE /\ environ' = DotenvLines(environ, dotenv.lines)
          /\ Apply(Goto("dispatch"))
  /\ UNCHANGED <<environ0, dotenv, docker, args, url, used, requests,
                 lookups, procs, maskVars>>

-----------------------------------------------------------------------------
(* HTTP client adapter and response parser *)

\* What the server does with a GET.  reachable = FALSE stands for every
\* urllib.error.URLError (refused, DNS, timeout); otherwise urlopen returns
\* the response or raises HTTPError, and http_get hands back (status, body)
\* in both cases.
http_get(u, resp) ==
  IF resp.reachable
  THEN [die |-> FALSE, status |-> resp.status, body |-> resp.body,
        message |-> <<>>]
  ELSE [die |-> TRUE, status |-> 0, body |-> resp.body,
        message |-> <<"Plex is not reachable at ">> \o Split1(u, "?")[1]
                      \o <<" (", "URLError", ")">>]

\* StatusIsError with the upper limit off by one: 300 is a success
StatusIsError_off_by_one(status) == status < 200 \/ status > 300

\* status < 200 or status >= 300
StatusIsError(status) == status < 200 \/ status >= 300

\* directory.attrib.get(name) or ""
OrEmpty(opt) == IF opt = <<>> THEN <<>> ELSE opt[1]

\* the loop of parse_sections_xml over the Directory elements of the root:
\* an element without key is skipped
RECURSIVE SectionsOf(_)
SectionsOf(dirs) ==
  IF dirs = <<>> THEN <<>>
  ELSE IF Head(dirs).key = <<>> THEN SectionsOf(Tail(dirs))
  ELSE <<[id |-> Head(dirs).key[1], title |-> OrEmpty(Head(dirs).title),
          type |-> OrEmpty(Head(dirs).type)]>> \o SectionsOf(Tail(dirs))

\* a body is an XML document or not; a document is the sequence of the
\* Directory children of its root, each with its optional attributes
parse_sections_xml(body) ==
  IF body.wellformed
  THEN [die |-> FALSE, sections |-> SectionsOf(body.dirs)]
  ELSE [die |-> TRUE, sections |-> <<>>]

\* json.dumps(sections, indent=2): the text, values not escaped
JsonObject(sec) ==
  <<"  {", "\n", "    \"id\": \"">> \o sec.id
    \o <<"\",", "\n", "    \"title\": \"">> \o sec.title
    \o <<"\",", "\n", "    \"type\": \"">> \o sec.type
    \o <<"\"", "\n", "  }">>

RECURSIVE JsonObjects(_)
JsonObjects(sections) ==
  IF Len(sections) = 1 THEN JsonObject(sections[1])
  ELSE JsonObject(sections[1]) \o <<",", "\n">> \o JsonObjects(Tail(sections))

json_dumps(sections) ==
  IF sections = <<>> THEN <<"[]">>
  ELSE <<"[", "\n">> \o JsonObjects(sections) \o <<"\n", "]">>

\* max(len(s[field]) for s in sections)
RECURSIVE MaxWidth(_, _)
MaxWidth(sections, field) ==
  IF sections = <<>> THEN 0
  ELSE LET rest == MaxWidth(Tail(sections), field)
           here == Len(Head(sections)[field])
       IN  IF here > rest THEN here ELSE rest

\* a * n
Repeat(a, n) == [i \in 1..n |-> a]

\* s.ljust(width)
ljust(s, width) == IF Len(s) >= width THEN s ELSE s \o Repeat(" ", width - Len(s))

\* the table of cmd_sections: header, separator, one row per section
SectionsTable(sections) ==
  LET id_width   == MaxWidth(sections, "id")
      type_width == MaxWidth(sections, "type")
  IN  <<ljust(<<"I", "D">>, id_width) \o <<" ", " ">>
          \o ljust(<<"T", "Y", "P", "E">>, type_width) \o <<" ", " ">>
          \o <<"T", "I", "T", "L", "E">>,
        Repeat("-", id_width) \o <<" ", " ">> \o Repeat("-", type_width)
          \o <<" ", " ">> \o Repeat("-", 5)>>
      \o [i \in 1..Len(sections) |->
            ljust(sections[i].id, id_width) \o <<" ", " ">>
              \o ljust(sections[i].type, type_width) \o <<" ", " ">>
              \o sections[i].title]

-----------------------------------------------------------------------------
(* sections *)

\* cmd_sections up to the call of http_get: the settings are read and the
\* URL is built; a missing token is fatal
cmd_sections_prepare ==
  /\ pc = "dispatch"
  /\ args.command = "sections"
  /\ LET base_url == get_env(environ, PLEX_BASE_URL, DEFAULT_BASE_URL)
     IN  IF EnvMissing(environ, PLEX_TOKEN)
         THEN /\ Apply(die("config", require_env_message(PLEX_TOKEN)))
              /\ used' = (PLEX_BASE_URL :> base_url) @@ used
              /\ url' = url
         ELSE LET token == environ[PLEX_TOKEN]
              IN  /\ Apply(Goto("sections_get"))
                  /\ used' = (PLEX_BASE_URL :> base_url)
                               @@ (PLEX_TOKEN :> token) @@ used
                  /\ url' = build_plex_url(base_url,
                              <<"/", "library", "/", "sections">>,
                              <<[k |-> TOKEN_PARAM, v |-> token]>>)
  /\ UNCHANGED <<environ, environ0, dotenv, docker, args, requests, lookups,
                 procs, maskVars>>

\* what cmd_sections does with the answer of http_get
SectionsOutcome(r) ==
  IF r.die THEN die("network", r.message)
  ELSE IF StatusIsError(r.status)
  THEN die("http_status",
           <<"Plex returned HTTP ", ToString(r.status), " for ">>
             \o mask_token_in_url(url))
  ELSE LET parsed == parse_sections_xml(r.body)
       IN  IF parsed.die
           THEN die("parse", <<"Failed to parse Plex response XML (",
                               "ParseError", ")">>)
           ELSE IF args.json
           THEN Return(0, Lines(json_dumps(parsed.sections)), <<>>)
           ELSE IF parsed.sections = <<>>
           THEN Return(0, <<<<"No sections found.">>>>, <<>>)
           ELSE Return(0, SectionsTable(parsed.sections), <<>>)


\* the answers of the server the model draws from
Statuses == {199, 200, 299, 300, 500}

Malformed == [wellformed |-> FALSE, dirs |-> <<>>]

NoDirectory == [wellformed |-> TRUE, dirs |-> <<>>]

\* <Directory key="1" title="M" type="mo"/><Directory title="N"/>
\* <Directory key="22"/>
ThreeDirectories ==
  [wellformed |-> TRUE,
   dirs |-> <<[key |-> <<<<"1">>>>, title |-> <<<<"M">>>>,
               type |-> <<<<"m", "o">>>>],
              [key |-> <<>>, title |-> <<<<"N">>>>, type |-> <<>>],
              [key |-> <<<<"2", "2">>>>, title |-> <<>>, type |-> <<>>]>>]

Bodies == {Malformed, NoDirectory, ThreeDirectories}

Responses ==
  {[reachable |-> FALSE, status |-> 0, body |-> Malformed]}
    \cup [reachable : {TRUE}, status : Statuses, body : Bodies]

\* a request with the answer it got
Request(u, resp) ==
  [url |-> u, reachable |-> resp.reachable, status |-> resp.status,
   body |-> resp.body]

\* cmd_sections from the call of http_get on: one GET, then the output
cmd_sections_get ==
  /\ pc = "sections_get"
  /\ \E resp \in Responses :
       /\ requests' = Append(requests, Request(url, resp))
       /\ Apply(SectionsOutcome(http_get(url, resp)))
  /\ UNCHANGED <<environ, environ0, dotenv, docker, args, url, used, lookups,
                 procs, maskVars>>

-----------------------------------------------------------------------------
(* refresh *)

\* args.path.strip() == ""
PathEmpty(path) == Strip(path) = <<>>

\* PathRelative never true: a relative --path accepted
PathRelative_ignored(path) == FALSE

\* not args.path.startswith("/")
PathRelative(path) == ~StartsWith(path, "/")

\* the parameters of the refresh request, in the order they are added
RefreshParams(token, force, path) ==
  <<[k |-> TOKEN_PARAM, v |-> token]>>
    \o (IF force THEN <<[k |-> <<"force">>, v |-> <<"1">>]>> ELSE <<>>)
    \o (IF path # <<>> THEN <<[k |-> <<"path">>, v |-> path[1]]>> ELSE <<>>)

\* cmd_refresh up to the call of http_get: settings, validation of --path,
\* the URL
cmd_refresh_prepare ==
  /\ pc = "dispatch"
  /\ args.command = "refresh"
  /\ LET base_url == get_env(environ, PLEX_BASE_URL, DEFAULT_BASE_URL)
     IN  IF EnvMissing(environ, PLEX_TOKEN)
         THEN /\ Apply(die("config", require_env_message(PLEX_TOKEN)))
              /\ used' = (PLEX_BASE_URL :> base_url) @@ used
              /\ url' = url
         ELSE LET token == environ[PLEX_TOKEN]
              IN  /\ used' = (PLEX_BASE_URL :> base_url)
                               @@ (PLEX_TOKEN :> token) @@ used
                  /\ IF args.path # <<>> /\ PathEmpty(args.path[1])
                     THEN /\ Apply(die("validation",
                                       <<"--path was provided but empty">>))
                          /\ url' = url
                     ELSE IF args.path # <<>> /\ PathRelative(args.path[1])
                     THEN /\ Apply(die("validation",
                                <<"--path must be an absolute path (start with '/'): ">>
                                  \o args.path[1]))
                          /\ url' = url
                     ELSE /\ Apply(Goto("refresh_get"))
                          /\ url' = build_plex_url(base_url,
                                      <<"/", "library", "/", "sections", "/">>
                                        \o args.section \o <<"/", "refresh">>,
                                      RefreshParams(token, args.force, args.path))
  /\ UNCHANGED <<environ, environ0, dotenv, docker, args, requests, lookups,
                 procs, maskVars>>

\* what cmd_refresh does with the answer of http_get
RefreshOutcome(r) ==
  IF r.die THEN die("network", r.message)
  ELSE LET safe_url == mask_token_in_url(url)
       IN  IF StatusIsError(r.status)
           THEN die("http_status",
                    <<"Refresh failed (HTTP ", ToString(r.status), ")", "\n",
                      "URL: ">> \o safe_url)
           ELSE Return(0,
                  <<<<"Refresh triggered successfully (HTTP ",
                      ToString(r.status), ")">>,
                    <<"URL: ">> \o safe_url>>,
                  <<>>)

cmd_refresh_get ==
  /\ pc = "refresh_get"
  /\ \E resp \in Responses :
       /\ requests' = Append(requests, Request(url, resp))
       /\ Apply(RefreshOutcome(http_get(url, resp)))
  /\ UNCHANGED <<environ, environ0, dotenv, docker, args, url, used, lookups,
                 procs, maskVars>>

-----------------------------------------------------------------------------
(* Process invoker *)

\* the return codes of a child the model draws from; Python reports a child
\* killed by signal 9 as -9
InspectCodes == {0, 1}

ChildCodes == {-9, 0, 1, 2, 255}

\* _docker_container_exists ignoring the return code of the inspect
_docker_container_exists_always(returncode) == TRUE

\* proc.returncode == 0
_docker_container_exists(returncode) == returncode = 0

\* _run_docker_command turning every failure into 1
_run_docker_command_flattens(returncode) == IF returncode = 0 THEN 0 ELSE 1

\* int(proc.returncode)
_run_docker_command(returncode) == returncode

Proc(argv, returncode) == [argv |-> argv, returncode |-> returncode]

InspectArgv(container) == <<<<"docker">>, <<"inspect">>, container>>

NotFoundMessage(container) ==
  <<"Docker container '">> \o container \o <<"' not found">>

\* The first lines of cmd_logs, cmd_restart and cmd_scanner: the container
\* name is read, _docker_container_exists looks docker up and runs the
\* inspect; the handler dies when docker or the container is missing and
\* goes on at label otherwise.
RequireContainer(label) ==
  LET container == get_env(environ, PLEX_CONTAINER, DEFAULT_CONTAINER)
  IN  /\ used' = (PLEX_CONTAINER :> container) @@ used
      /\ lookups' = Append(lookups, docker)
      /\ IF ~docker
         THEN /\ procs' = procs
              /\ Apply(die("no_docker", <<"docker CLI not found in PATH">>))
         ELSE \E rc \in InspectCodes :
                /\ procs' = Append(procs, Proc(InspectArgv(container), rc))
                /\ Apply(IF _docker_container_exists(rc) THEN Goto(label)
                         ELSE die("no_container", NotFoundMessage(container)))
      /\ UNCHANGED <<environ, environ0, dotenv, docker, args, url, requests,
                     maskVars>>

\* _run_docker_command(cmd) as the last statement of a handler: docker is
\* looked up again, the child runs with the streams of the parent and ends
\* with return code rc, and the handler finishes as `finish', which the
\* caller computes from _run_docker_command(rc)
RunDocker(argv, rc, finish) ==
  /\ lookups' = Append(lookups, docker)
  /\ IF ~docker
     THEN /\ procs' = procs
          /\ Apply(die("no_docker", <<"docker CLI not found in PATH">>))
     ELSE /\ procs' = Append(procs, Proc(argv, rc))
          /\ Apply(finish)
  /\ UNCHANGED <<environ, environ0, dotenv, docker, args, url, used, requests,
                 maskVars>>

ForwardExit(rc) == Return(rc, <<>>, <<>>)

-----------------------------------------------------------------------------
(* logs *)

DigitValue(a) ==
  CASE a = "0" -> 0 [] a = "1" -> 1 [] a = "2" -> 2 [] a = "3" -> 3
    [] a = "4" -> 4 [] a = "5" -> 5 [] a = "6" -> 6 [] a = "7" -> 7
    [] a = "8" -> 8 [] a = "9" -> 9 [] OTHER -> -1

\* the value of a run of decimal digits, -1 if an atom is no digit
RECURSIVE DigitsValue(_, _)
DigitsValue(s, acc) ==
  IF s = <<>> THEN acc
  ELSE IF DigitValue(Head(s)) < 0 THEN -1
  ELSE DigitsValue(Tail(s), acc * 10 + DigitValue(Head(s)))

\* int(text): blanks stripped, an optional sign, decimal digits; anything
\* else raises ValueError
int(text) ==
  LET t      == Strip(text)
      signed == t # <<>> /\ t[1] \in {"-", "+"}
      digits == IF signed THEN Tail(t) ELSE t
      value  == DigitsValue(digits, 0)
  IN  IF digits = <<>> \/ value < 0 THEN [ok |-> FALSE, value |-> 0]
      ELSE [ok |-> TRUE,
            value |-> IF StartsWith(t, "-") THEN 0 - value ELSE value]

\* n <= 0
NotPositive(n) == n <= 0

LogsArgv(n, container) ==
  <<<<"docker">>, <<"logs">>, <<"-n">>, <<ToString(n)>>, container>>

cmd_logs_inspect ==
  /\ pc = "dispatch"
  /\ args.command = "logs"
  /\ RequireContainer("logs_validate")

\* n = int(args.n) and its check; argparse hands -n over as text
cmd_logs_validate ==
  /\ pc = "logs_validate"
  /\ LET n == int(args.n)
     IN  Apply(IF ~n.ok
               THEN Uncaught("ValueError: invalid literal for int() with base 10")
               ELSE IF NotPositive(n.value)
               THEN die("validation", <<"-n must be a positive integer">>)
               ELSE Goto("logs_run"))
  /\ UNCHANGED <<environ, environ0, dotenv, docker, args, url, used, requests,
                 lookups, procs, maskVars>>

cmd_logs_run ==
  /\ pc = "logs_run"
  /\ \E rc \in ChildCodes :
       RunDocker(LogsArgv(int(args.n).value,
                          get_env(environ, PLEX_CONTAINER, DEFAULT_CONTAINER)),
                 rc, ForwardExit(_run_docker_command(rc)))

-----------------------------------------------------------------------------
(* restart *)

RestartArgv(container) == <<<<"docker">>, <<"restart">>, container>>

cmd_restart_inspect ==
  /\ pc = "dispatch"
  /\ args.command = "restart"
  /\ RequireContainer("restart_run")

cmd_restart_run ==
  /\ pc = "restart_run"
  /\ \E rc \in ChildCodes :
       RunDocker(RestartArgv(get_env(environ, PLEX_CONTAINER, DEFAULT_CONTAINER)),
                 rc, ForwardExit(_run_docker_command(rc)))

-----------------------------------------------------------------------------
(* scanner *)

ScannerArgv(container) ==
  <<<<"docker">>, <<"exec">>, <<"-i">>, container, SCANNER_PATH, <<"--list">>>>

\* MissingList never true: the check of --list left out
MissingList_ignored(a) == FALSE

\* not args.list
MissingList(a) == ~a.list

\* the text of the diagnostic block, after dedent and rstrip
ScannerDiagnostic(rc, container) ==
  <<"Scanner command failed (exit code ", ToString(rc), ").", "\n",
    "Tried: docker exec -i ">> \o container \o <<" ", "'">> \o SCANNER_PATH
    \o <<"'", " --list", "\n",
         "\n",
         "Notes:", "\n",
         "- Some Plex images use a different scanner path.", "\n",
         "- Ensure the container is running and includes Plex Media Scanner.">>

\* rc != 0
ScannerFailed(rc) == rc # 0

\* the end of cmd_scanner: the block is printed to stderr when the scanner
\* failed, and rc is returned
ScannerFinish(rc) ==
  Return(rc, <<>>,
         IF ScannerFailed(rc)
         THEN Lines(ScannerDiagnostic(rc,
                      get_env(environ, PLEX_CONTAINER, DEFAULT_CONTAINER)))
         ELSE <<>>)

cmd_scanner_check ==
  /\ pc = "dispatch"
  /\ args.command = "scanner"
  /\ Apply(IF MissingList(args) THEN die("validation", <<"Missing --list">>)
           ELSE Goto("scanner_inspect"))
  /\ UNCHANGED <<environ, environ0, dotenv, docker, args, url, used, requests,
                 lookups, procs, maskVars>>

cmd_scanner_inspect ==
  /\ pc = "scanner_inspect"
  /\ RequireContainer("scanner_run")

cmd_scanner_run ==
  /\ pc = "scanner_run"
  /\ \E rc \in ChildCodes :
       RunDocker(ScannerArgv(get_env(environ, PLEX_CONTAINER, DEFAULT_CONTAINER)),
                 rc, ScannerFinish(_run_docker_command(rc)))

-----------------------------------------------------------------------------
(* The invocations the model draws from *)

\* the environment before invocation: each variable the command reads is
\* unset, blank or set; the variables it does not read are unset, and
\* docker is looked for only by the commands that run it
TokenPresets == {<<>>, <<<<" ">>>>, <<SECRET_ENV>>}

BasePresets ==
  {<<>>, <<<<>>>>, <<<<"http", ":", "/", "/", "h", "/">>>>,
   <<<<"http", ":", "/", "/", "h", "#", "f">>>>}

ContainerPresets == {<<>>, <<<<" ">>>>, <<<<"c">>>>}

Preset(name, opt) == IF opt = <<>> THEN <<>> ELSE (name :> opt[1])

Environment(t, b, c) ==
  Preset(PLEX_TOKEN, t) @@ Preset(PLEX_BASE_URL, b) @@ Preset(PLEX_CONTAINER, c)

\* the longest .env file, in lines
MaxDotenvLines == 2

\* lines that give a value: plain, with blanks around key and value and a
\* quoted value, quoted, empty, and a URL
DotenvGivingLines ==
  { <<"PLEX_TOKEN", "=">> \o SECRET_FILE,
    <<" ", "PLEX_TOKEN", " ", "=", " ", "\"">> \o SECRET_FILE2 \o <<"\"", " ">>,
    <<"PLEX_CONTAINER", "=", "'", "k", "'">>,
    <<"PLEX_CONTAINER", "=">>,
    <<"PLEX_BASE_URL", "=", "http", ":", "/", "/", "g", "/">> }

\* a file whose first lines are skipped: a comment, a line without "=", a
\* line with an empty key, a blank line
DotenvWithSkippedLines ==
  << <<"#", "PLEX_TOKEN", "=">> \o SECRET_FILE,
     <<"PLEX_TOKEN">>,
     <<"=">> \o SECRET_FILE,
     <<" ">>,
     <<"PLEX_TOKEN", "=">> \o SECRET_FILE2,
     <<"PLEX_BASE_URL", "=", " ">> >>

\* the .env files: lines as read_text().splitlines() yields them
DotenvContents ==
  SeqsUpTo(DotenvGivingLines, MaxDotenvLines) \cup {DotenvWithSkippedLines}

Dotenvs ==
  {[kind |-> "absent", lines |-> <<>>],
   [kind |-> "directory", lines |-> <<>>],
   [kind |-> "unreadable", lines |-> <<>>]}
    \cup [kind : {"file"}, lines : DotenvContents]

Sections == {<<"1">>, <<"1", "#">>, <<"1", "?", "a", "=", "b">>}

Paths ==
  {<<>>, <<<<>>>>, <<<<" ">>>>, <<<<"r", "/", "p">>>>, <<<<"/", "m", " ", "v">>>>}

Counts == {<<"2", "0", "0">>, <<"3">>, <<"0">>, <<"-", "5">>, <<"x">>}

NoArgs ==
  [command |-> "", json |-> FALSE, section |-> <<>>, force |-> FALSE,
   path |-> <<>>, n |-> <<>>, list |-> FALSE]

Invocations ==
  {[NoArgs EXCEPT !.command = "sections", !.json = j] : j \in BOOLEAN}
    \cup {[NoArgs EXCEPT !.command = "refresh", !.section = s, !.force = f,
                         !.path = p] :
            s \in Sections, f \in BOOLEAN, p \in Paths}
    \cup {[NoArgs EXCEPT !.command = "logs", !.n = n] : n \in Counts}
    \cup {[NoArgs EXCEPT !.command = "restart"]}
    \cup {[NoArgs EXCEPT !.command = "scanner", !.list = l] : l \in BOOLEAN}

-----------------------------------------------------------------------------
(* The process: main from its first line to the exit *)

MaskIdle == murl = <<>> /\ mout = <<>> /\ mphase = 0

Init ==
  /\ pc = "start"
  /\ args \in Invocations
  /\ IF args.command \in {"sections", "refresh"}
     THEN /\ \E t \in TokenPresets, b \in BasePresets :
               environ = Environment(t, b, <<>>)
          /\ docker = FALSE
     ELSE /\ \E c \in ContainerPresets : environ = Environment(<<>>, <<>>, c)
          /\ docker \in BOOLEAN
  /\ environ0 = environ
  /\ dotenv \in Dotenvs
  /\ url = <<>>
  /\ used = <<>>
  /\ requests = <<>>
  /\ lookups = <<>>
  /\ procs = <<>>
  /\ stdout = <<>>
  /\ stderr = <<>>
  /\ fatal = ""
  /\ exitCode = <<>>
  /\ MaskIdle

Next ==
  \/ load_dotenv_if_present
  \/ cmd_sections_prepare
  \/ cmd_sections_get
  \/ cmd_refresh_prepare
  \/ cmd_refresh_get
  \/ cmd_logs_inspect
  \/ cmd_logs_validate
  \/ cmd_logs_run
  \/ cmd_restart_inspect
  \/ cmd_restart_run
  \/ cmd_scanner_check
  \/ cmd_scanner_inspect
  \/ cmd_scanner_run

Spec == Init /\ [][Next]_vars

-----------------------------------------------------------------------------
(* mask_token_in_url on its own: called on a URL, then on its own result *)

MaxUrlLen == 4

MaxFields == 3

MaxCalls == 2

UrlAtoms == {"http", ":", "/", "?", "#", "&", "=", "X-Plex-Token", "+", "%26"}

\* the fields of a query string, as written in a URL
RawFields ==
  { <<"a">>, <<"a", "=", "1">>, <<"X-Plex-Token", "=", "S">>,
    <<"X-Plex-Token">>, <<"X-Plex-Token", "=", "*", "*", "*", "*">>,
    <<"b", "=", "%26", "+", "=">>, <<"=", "S">> }

Prefixes ==
  { <<"http", ":", "/", "/", "h", "/", "p">>, <<"/", "p">>,
    <<"http", ":", "/", "/", "/", "/", "h">> }

Fragments == { <<>>, <<"#", "X-Plex-Token", "=", "S">> }

MaskUrls ==
  SeqsUpTo(UrlAtoms, MaxUrlLen)
    \cup {p \o <<"?">> \o Join(fs, "&") \o f :
            p \in Prefixes, fs \in SeqsUpTo(RawFields, MaxFields),
            f \in Fragments}

RunIdle ==
  /\ pc = "idle"
  /\ environ = <<>>
  /\ environ0 = <<>>
  /\ dotenv = [kind |-> "absent", lines |-> <<>>]
  /\ docker = FALSE
  /\ args = NoArgs
  /\ url = <<>>
  /\ used = <<>>
  /\ requests = <<>>
  /\ lookups = <<>>
  /\ procs = <<>>
  /\ stdout = <<>>
  /\ stderr = <<>>
  /\ fatal = ""
  /\ exitCode = <<>>

InitMask ==
  /\ RunIdle
  /\ murl \in MaskUrls
  /\ mout = <<>>
  /\ mphase = 0

\* one more call: on the URL first, then on the last result
mask_call ==
  /\ mphase < MaxCalls
  /\ mout' = Append(mout, mask_token_in_url(IF mout = <<>> THEN murl
                                            ELSE mout[Len(mout)]))
  /\ mphase' = mphase + 1
  /\ UNCHANGED <<murl, runVars>>

NextMask == mask_call

SpecMask == InitMask /\ [][NextMask]_vars

-----------------------------------------------------------------------------
(* Properties *)

\* the states in which the process has exited after main got past the
\* loading of the .env file, that is, the chosen handler has run
HandlerDone == pc = "done" /\ fatal # "dotenv"

Container == get_env(environ, PLEX_CONTAINER, DEFAULT_CONTAINER)

IsSuccess(status) == status \in 200..299

\* some line of stderr holds text as a run of consecutive atoms
ErrCarries(text) == \E i \in 1..Len(stderr) : Contains(stderr[i], text)

\* C1: in a run of sections or refresh, no line printed to stdout or stderr
\* holds the value of PLEX_TOKEN, whatever the outcome.
C1_TokenNeverPrinted ==
  (args.command \in {"sections", "refresh"} /\ ~EnvMissing(environ, PLEX_TOKEN))
    => /\ \A i \in 1..Len(stdout) : ~Contains(stdout[i], environ[PLEX_TOKEN])
       /\ \A i \in 1..Len(stderr) : ~Contains(stderr[i], environ[PLEX_TOKEN])

\* line i of the .env file gives a value to the variable name
FileLineGives(i, name) ==
  /\ ~DotenvSkips(dotenv.lines[i])
  /\ DotenvKey(dotenv.lines[i]) = name

FileGives(name) ==
  /\ dotenv.kind = "file"
  /\ \E i \in 1..Len(dotenv.lines) : FileLineGives(i, name)

\* the value the file gives: that of the first line that names the variable
FileValue(name) ==
  LET i == CHOOSE i \in 1..Len(dotenv.lines) :
             /\ FileLineGives(i, name)
             /\ \A j \in 1..(i - 1) : ~FileLineGives(j, name)
  IN  DotenvValue(dotenv.lines[i])

\* the built-in default; PLEX_TOKEN has none
Default(name) ==
  CASE name = PLEX_BASE_URL -> DEFAULT_BASE_URL
    [] name = PLEX_CONTAINER -> DEFAULT_CONTAINER
    [] OTHER -> <<>>

\* loading the file changes no variable that was set before
EnvironmentKept ==
  \A name \in DOMAIN environ0 :
    name \in DOMAIN environ /\ environ[name] = environ0[name]

\* C2, as stated: the value a handler uses is the one set in the
\* environment before invocation if there is one, else the one the file
\* gives if there is one, else the default; the load changes no variable
\* that was already set.
C2_Precedence ==
  /\ \A name \in DOMAIN used :
       used[name] = IF name \in DOMAIN environ0 THEN environ0[name]
                    ELSE IF FileGives(name) THEN FileValue(name)
                    ELSE Default(name)
  /\ EnvironmentKept

\* the value of a variable once the file is loaded, if it has one
Resolved(name) ==
  IF name \in DOMAIN environ0 THEN <<environ0[name]>>
  ELSE IF FileGives(name) THEN <<FileValue(name)>>
  ELSE <<>>

ResolvedBlank(name) == Resolved(name) = <<>> \/ IsBlank(Resolved(name)[1])

\* C2, amended: the value set before invocation, even a blank one, else the
\* first value the file gives, is what a handler uses when it is not blank;
\* when it is blank or there is none, the handler uses the default for
\* PLEX_BASE_URL and PLEX_CONTAINER and fails with the missing-variable
\* error for PLEX_TOKEN; the load changes no variable that was already set.
C2_PrecedenceAmended ==
  /\ \A name \in DOMAIN used :
       used[name] = IF ResolvedBlank(name) THEN Default(name)
                    ELSE Resolved(name)[1]
  /\ PLEX_TOKEN \in DOMAIN used => ~ResolvedBlank(PLEX_TOKEN)
  /\ (HandlerDone /\ args.command \in {"sections", "refresh"})
       => /\ PLEX_BASE_URL \in DOMAIN used
          /\ ResolvedBlank(PLEX_TOKEN)
               => /\ PLEX_TOKEN \notin DOMAIN used
                  /\ fatal = "config"
                  /\ requests = <<>>
          /\ ~ResolvedBlank(PLEX_TOKEN) => PLEX_TOKEN \in DOMAIN used
  /\ (HandlerDone /\ args.command \in {"logs", "restart"})
       => PLEX_CONTAINER \in DOMAIN used
  /\ EnvironmentKept

\* the token is set in the environment and given another value by the file,
\* and the handler used the one of the environment; the base URL is not set
\* and the handler used the one of the file
C2_Witness ==
  /\ pc = "done"
  /\ PLEX_TOKEN \in DOMAIN environ0
  /\ FileGives(PLEX_TOKEN)
  /\ FileValue(PLEX_TOKEN) # environ0[PLEX_TOKEN]
  /\ PLEX_TOKEN \in DOMAIN used
  /\ used[PLEX_TOKEN] = environ0[PLEX_TOKEN]
  /\ PLEX_BASE_URL \notin DOMAIN environ0
  /\ FileGives(PLEX_BASE_URL)
  /\ used[PLEX_BASE_URL] = FileValue(PLEX_BASE_URL)
  /\ used[PLEX_BASE_URL] # DEFAULT_BASE_URL

\* the diagnostic block of cmd_scanner is on stderr
DiagnosticPrinted ==
  /\ stderr # <<>>
  /\ stderr[1] # <<>>
  /\ stderr[1][1] = "Scanner command failed (exit code "

\* C3: in logs, restart and scanner, once the docker logs / restart / exec
\* child has run, the exit status of the command is the exit code of the
\* child, for every exit code 0..255 (a child killed by a signal has no exit
\* code: Python reports a negative return code); in scanner the diagnostic
\* block is printed exactly when the child's return code is not zero, and
\* logs and restart print nothing.
C3_ExitCodeForwarded ==
  Len(procs) = 2
    => LET rc == procs[2].returncode
       IN  /\ pc = "done"
           /\ fatal = ""
           /\ rc \in 0..255 => exitCode = <<rc>>
           /\ rc = 0 <=> exitCode = <<0>>
           /\ IF args.command = "scanner"
              THEN /\ DiagnosticPrinted <=> rc # 0
                   /\ rc # 0 => stderr = Lines(ScannerDiagnostic(rc, Container))
              ELSE stderr = <<>>
           /\ rc = 0 => stderr = <<>>

C3_Witness ==
  /\ pc = "done"
  /\ args.command = "scanner"
  /\ Len(procs) = 2
  /\ procs[2].returncode = 2
  /\ exitCode = <<2>>
  /\ DiagnosticPrinted

\* C4: in a run of logs with a line count that is not positive, no child
\* process is started, neither the inspect nor the logs command.
C4_NoProcessBeforeValidation ==
  (args.command = "logs" /\ int(args.n).ok /\ int(args.n).value <= 0)
    => procs = <<>>

\* C5: scanner without --list looks up no executable and starts no child,
\* in any state of the run; once the handler has run, the process has
\* printed the one line "Error: Missing --list" and exited with status 1.
C5_MissingListFirst ==
  (args.command = "scanner" /\ ~args.list)
    => /\ lookups = <<>>
       /\ procs = <<>>
       /\ pc \in {"start", "dispatch", "done"}
       /\ HandlerDone
            => /\ stderr = <<<<"Error: ", "Missing --list">>>>
               /\ exitCode = <<1>>
               /\ fatal = "validation"

\* docker is in the PATH, and still the handler has failed without a lookup
C5_Witness ==
  /\ args.command = "scanner"
  /\ ~args.list
  /\ docker
  /\ pc = "done"
  /\ fatal = "validation"
  /\ lookups = <<>>

\* the --path of a refresh is given and is empty, blank or relative
BadPath ==
  /\ args.command = "refresh"
  /\ args.path # <<>>
  /\ (PathEmpty(args.path[1]) \/ args.path[1][1] # "/")

\* C6, as stated: refresh with a --path that is empty, blank or relative
\* fails with a validation error and issues no GET.
C6_BadPathValidation ==
  BadPath => /\ requests = <<>>
             /\ HandlerDone => fatal = "validation"

\* C6, amended: refresh with a --path that is empty, blank or relative
\* issues no GET in any state of the run and fails with status 1: with the
\* validation error when PLEX_TOKEN is set and not blank, and with the
\* missing-variable error, raised before --path is looked at, when it is not.
C6_BadPathNoRequest ==
  BadPath => /\ requests = <<>>
             /\ pc # "refresh_get"
             /\ url = <<>>
             /\ HandlerDone
                  => /\ exitCode = <<1>>
                     /\ Len(stderr) = 1
                     /\ IF EnvMissing(environ, PLEX_TOKEN)
                        THEN fatal = "config"
                        ELSE fatal = "validation"

C6_Witness ==
  /\ BadPath
  /\ ~PathEmpty(args.path[1])
  /\ pc = "done"
  /\ fatal = "validation"
  /\ PLEX_TOKEN \in DOMAIN used
  /\ requests = <<>>
  /\ exitCode = <<1>>

\* C7: a fatal error prints exactly one line, "Error: <message>", to stderr
\* and ends the process with a status that is not zero; nothing is retried.
C7_SingleErrorLine ==
  (pc = "done" /\ fatal \notin {"", "uncaught"})
    => /\ Len(stderr) = 1
       /\ stderr[1][1] = "Error: "
       /\ exitCode # <<>>
       /\ exitCode # <<0>>
       /\ Len(requests) <= 1
       /\ Len(procs) <= 1

\* the server has answered the GET of this run
Answered == requests # <<>> /\ requests[1].reachable

\* what C8 says of a run whose GET was answered, given when it succeeds
AnsweredRun(succeeds) ==
  LET r == requests[1]
  IN  /\ Len(requests) = 1
      /\ fatal # "network"
      /\ exitCode = <<0>> <=> succeeds
      /\ ~IsSuccess(r.status)
           => /\ fatal = "http_status"
              /\ exitCode = <<1>>
              /\ ErrCarries(<<ToString(r.status)>>)
              /\ ErrCarries(mask_token_in_url(r.url))

\* C8, as stated: an answer with an error status reaches the handler as
\* (status, body); the handler exits with 0 exactly when the status is in
\* 200..299 and fails otherwise with a message that carries the status and
\* the redacted URL; one GET is issued either way.
C8_StatusDecides ==
  (pc = "done" /\ Answered) => AnsweredRun(IsSuccess(requests[1].status))

\* C8, amended: as stated for refresh; sections exits with 0 exactly when
\* the status is in 200..299 and the body is well-formed XML, and a 2xx
\* answer with a malformed body is a fatal parse error.
C8_StatusAndBodyDecide ==
  /\ Len(requests) <= 1
  /\ (pc = "done" /\ Answered)
       => LET r == requests[1]
          IN  /\ AnsweredRun(/\ IsSuccess(r.status)
                             /\ args.command = "sections" => r.body.wellformed)
              /\ (IsSuccess(r.status) /\ exitCode # <<0>>)
                   => /\ args.command = "sections"
                      /\ fatal = "parse"
                      /\ exitCode = <<1>>

C8_Witness ==
  /\ pc = "done"
  /\ args.command = "sections"
  /\ Len(requests) = 1
  /\ requests[1].reachable
  /\ requests[1].status = 500
  /\ fatal = "http_status"
  /\ exitCode = <<1>>

\* C9: redacting twice gives what redacting once gives, and the redacted
\* URL has the parameters of the URL in the same order, each parameter
\* other than X-Plex-Token with its value.
C9_IdempotentOrderPreserving ==
  /\ \A i \in 1..Len(mout) : mout[i] = mout[1]
  /\ mout # <<>>
       => LET before == parse_qsl(urlsplit(murl).query)
              after  == parse_qsl(urlsplit(mout[1]).query)
          IN  /\ Len(after) = Len(before)
              /\ \A i \in 1..Len(before) :
                   /\ after[i].k = before[i].k
                   /\ before[i].k # TOKEN_PARAM => after[i].v = before[i].v

\* C10: a docker logs / restart / exec child is started only as the second
\* child of the run, after an inspect of the configured container that
\* returned 0; when the inspect returns anything else the process has ended
\* with the one line "Error: Docker container '<name>' not found", status 1,
\* and no other child.
C10_InspectFirst ==
  /\ \A i \in 1..Len(procs) :
       procs[i].argv[2] # <<"inspect">>
         => /\ i = 2
            /\ procs[1] = Proc(InspectArgv(Container), 0)
  /\ (procs # <<>> /\ procs[1].returncode # 0)
       => /\ Len(procs) = 1
          /\ pc = "done"
          /\ fatal = "no_container"
          /\ exitCode = <<1>>
          /\ stderr = <<<<"Error: ">> \o NotFoundMessage(Container)>>

C10_Witness ==
  /\ pc = "done"
  /\ args.command = "logs"
  /\ Len(procs) = 2
  /\ procs[1].returncode = 0
  /\ procs[2].argv[2] = <<"logs">>

=============================================================================
